---- MODULE Spec2Model ----
(***************************************************************************)
(* Model of templates/shortcuts.py: the nextnanopy shortcuts for file-name *)
(* handling, engine detection and output-file resolution.                  *)
(*                                                                         *)
(* Python strings are sequences of one-character strings; a Python value   *)
(* whose type matters (isinstance tests) is a record [t |-> type, v |->    *)
(* value].  Paths follow the POSIX flavour of os.path.                     *)
(***************************************************************************)
EXTENDS Integers, Sequences, FiniteSets, TLC

VARIABLES
    op,                       \* the function that was called
    pc,                       \* position inside the call
    ret,                      \* the returned value (<<>> while none)
    err,                      \* the exception leaving the call ("none" while none)
    message,                  \* the value the exception's message names
    filename,                 \* argument filename / name / input_file_name
    args,                     \* *args, or the items of sweepCoordinates in order
    software,                 \* argument software; local software of detect_software_new
    sweep_output_folder_path, \* argument of get_output_subfolder_path
    exists,                   \* whether inputfile.fullpath can be opened
    lines,                    \* content of the input file, one entry per line
    lineNo,                   \* number of lines the for loop has consumed
    extension,                \* local extension of detect_software_new
    keywords,                 \* argument keywords
    found,                    \* what DataFolder.find reports for each keyword
    folder_path,              \* argument folder_path of getDataFile_in_folder
    list_of_files,            \* local list_of_files
    listed,                   \* the "Choice i: name" lines printed so far
    choices,                  \* the answers read by input() so far
    file                      \* local file handed to nn.DataFile (<<>> while none)

vars == <<op, pc, ret, err, message, filename, args, software, sweep_output_folder_path,
          exists, lines, lineNo, extension, keywords, found, folder_path,
          list_of_files, listed, choices, file>>

----------------------------------------------------------------------------
(* Bounds of the model *)

MaxNameLen == 3        \* length of the free part of a file name
MaxArgs == 2           \* number of sweep variables / sweep coordinates
MaxLines == 3          \* lines of an input file
MaxMarkersPerLine == 2 \* marker substrings occurring in one line
MaxKeywords == 2       \* length of a keyword list
MaxPrompts == 2        \* answers the chooser reads in one call

----------------------------------------------------------------------------
(* Python values and strings *)

StrV(s) == [t |-> "str", v |-> s]
IntV(n) == [t |-> "int", v |-> n]
ListV(l) == [t |-> "list", v |-> l]

\* the outcome of a call: a returned value, or an exception and what its
\* message names
Ok(v) == [err |-> "none", val |-> v, msg |-> <<>>]
Raise(e, m) == [err |-> e, val |-> <<>>, msg |-> m]

isinstance(x, type) == x.t = type

SeqsUpTo(S, n) == UNION {[1..k -> S] : k \in 0..n}

RECURSIVE Flatten(_)
Flatten(ss) == IF ss = <<>> THEN <<>> ELSE Head(ss) \o Flatten(Tail(ss))

\* str.rfind(c) + 1: the 1-based position of the last c, 0 when absent
rfind(s, c) ==
    LET hits == {i \in 1..Len(s) : s[i] = c}
    IN IF hits = {} THEN 0 ELSE CHOOSE i \in hits : \A j \in hits : j <= i

EndsWith(s, e) ==
    /\ Len(e) <= Len(s)
    /\ SubSeq(s, Len(s) - Len(e) + 1, Len(s)) = e

Digit(d) == CASE d = 0 -> "0" [] d = 1 -> "1" [] d = 2 -> "2" [] d = 3 -> "3"
              [] d = 4 -> "4" [] d = 5 -> "5" [] d = 6 -> "6" [] d = 7 -> "7"
              [] d = 8 -> "8" [] d = 9 -> "9"

RECURSIVE NatToStr(_)
NatToStr(n) == IF n < 10 THEN <<Digit(n)>> ELSE NatToStr(n \div 10) \o <<Digit(n % 10)>>

\* str(value) for the value types of the model
str(x) ==
    IF isinstance(x, "str") THEN x.v
    ELSE IF x.v < 0 THEN <<"-">> \o NatToStr(-x.v) ELSE NatToStr(x.v)

----------------------------------------------------------------------------
(* os.path *)

\* os.path.split(p)[1]: everything after the last slash
split_tail(p) == SubSeq(p, rfind(p, "/") + 1, Len(p))

\* os.path.splitext(p) for p without a slash: the extension starts at the
\* last dot unless only dots precede it
splitext(p) ==
    LET dotIndex == rfind(p, ".")
    IN IF dotIndex > 0 /\ \E j \in 1..(dotIndex - 1) : p[j] # "."
       THEN <<SubSeq(p, 1, dotIndex - 1), SubSeq(p, dotIndex, Len(p))>>
       ELSE <<p, <<>>>>

\* os.path.join(a, b)
join(a, b) ==
    IF b # <<>> /\ Head(b) = "/" THEN b
    ELSE IF a = <<>> \/ a[Len(a)] = "/" THEN a \o b
    ELSE a \o <<"/">> \o b

----------------------------------------------------------------------------
(* separateFileExtension *)

SupportedExtensionsWithCsv ==
    {<<>>, <<".", "i", "n">>, <<".", "x", "m", "l">>, <<".", "n", "e", "g", "f">>,
     <<".", "c", "s", "v">>}

SupportedExtensions ==
    {<<>>, <<".", "i", "n">>, <<".", "x", "m", "l">>, <<".", "n", "e", "g", "f">>}

separateFileExtension(name) ==
    LET parts == splitext(split_tail(name))
    IN IF parts[2] \notin SupportedExtensions
       THEN Raise("RuntimeError", parts[2])
       ELSE Ok(parts)

----------------------------------------------------------------------------
(* nn.config: the output directory configured for each engine *)

Software == {"nextnano3", "nextnano++", "nextnano.NEGF", "nextnano.NEGF++", "nextnano.MSB"}

outputdirectory(sw) ==
    CASE sw = "nextnano3" -> <<"o">>
      [] sw = "nextnano++" -> <<"o", "/">>
      [] sw = "nextnano.NEGF" -> <<>>
      [] sw = "nextnano.NEGF++" -> <<"/", "o">>
      [] sw = "nextnano.MSB" -> <<"o", "/", "p">>

----------------------------------------------------------------------------
(* Sweep folder and subfolder names *)

sweepSuffix == <<"_", "s", "w", "e", "e", "p">>

\* the for loop of getSweepOutputFolderName / getSweepOutputFolderPath
RECURSIVE appendSweepVarsReversed(_, _)
appendSweepVarsReversed(name, sweepVars) ==
    IF sweepVars = <<>> THEN Ok(name)
    ELSE IF ~isinstance(Head(sweepVars), "str") THEN Raise("TypeError", Head(sweepVars))
    ELSE LET rest == appendSweepVarsReversed(name, Tail(sweepVars))
         IN IF rest.err # "none" THEN rest
            ELSE Ok(rest.val \o <<"_", "_">> \o Head(sweepVars).v)

RECURSIVE appendSweepVars(_, _)
appendSweepVars(name, sweepVars) ==
    IF sweepVars = <<>> THEN Ok(name)
    ELSE IF ~isinstance(Head(sweepVars), "str") THEN Raise("TypeError", Head(sweepVars))
    ELSE appendSweepVars(name \o <<"_", "_">> \o Head(sweepVars).v, Tail(sweepVars))

getSweepOutputFolderName(name, sweepVars) ==
    LET sep == separateFileExtension(name)
    IN IF sep.err # "none" THEN sep
       ELSE appendSweepVars(sep.val[1] \o sweepSuffix, sweepVars)

getSweepOutputFolderPathNoArgCheck(name, sw, sweepVars) ==
    LET sep == separateFileExtension(name)
    IN IF sep.err # "none" THEN sep
       ELSE appendSweepVars(join(outputdirectory(sw), sep.val[1] \o sweepSuffix), sweepVars)

getSweepOutputFolderPath(name, sw, sweepVars) ==
    LET sep == separateFileExtension(name)
    IN IF sep.err # "none" THEN sep
       ELSE IF Len(sweepVars) = 0 THEN Raise("ValueError", <<>>)
       ELSE appendSweepVars(join(outputdirectory(sw), sep.val[1] \o sweepSuffix), sweepVars)

get_output_subfolder_path(folder, name) ==
    LET sep == separateFileExtension(name)
    IN IF sep.err # "none" THEN sep
       ELSE Ok(join(folder, sep.val[1]))

\* the for loop of getSweepOutputSubfolderName over sweepCoordinates.items()
RECURSIVE appendCoordinatesNoTrailer(_, _)
appendCoordinatesNoTrailer(name, items) ==
    IF items = <<>> THEN Ok(name)
    ELSE IF ~isinstance(Head(items)[1], "str") THEN Raise("TypeError", <<>>)
    ELSE appendCoordinatesNoTrailer(
             name \o Head(items)[1].v \o <<"_">> \o str(Head(items)[2]), Tail(items))

RECURSIVE appendCoordinates(_, _)
appendCoordinates(name, items) ==
    IF items = <<>> THEN Ok(name)
    ELSE IF ~isinstance(Head(items)[1], "str") THEN Raise("TypeError", <<>>)
    ELSE appendCoordinates(
             name \o Head(items)[1].v \o <<"_">> \o str(Head(items)[2]) \o <<"_">>,
             Tail(items))

getSweepOutputSubfolderName(name, items) ==
    LET sep == separateFileExtension(name)
    IN IF sep.err # "none" THEN sep
       ELSE appendCoordinates(sep.val[1] \o <<"_", "_">>, items)

----------------------------------------------------------------------------
(* detect_software_new *)

\* A line of the input file is represented by the set of marker substrings
\* that occur in it: the scan reads a line only through these six tests.
Markers == {"simulation-flow-control", "run{", "<nextnano.NEGF",
            "nextnano.NEGF{", "<nextnano.MSB", "nextnano.MSB{"}

Unbound == "unbound"   \* a local variable that was never assigned

\* one pass through the body of "for line in file"
scanLineNeverBreaks(line, sw, ext) ==
    IF "simulation-flow-control" \in line
    THEN [software |-> "nextnano3", extension |-> ".in", break |-> FALSE]
    ELSE IF "run{" \in line
    THEN [software |-> "nextnano++", extension |-> ".in", break |-> FALSE]
    ELSE IF "<nextnano.NEGF" \in line
    THEN [software |-> "nextnano.NEGF", extension |-> ".xml", break |-> FALSE]
    ELSE IF "nextnano.NEGF{" \in line
    THEN [software |-> "nextnano.NEGF++", extension |-> ".negf", break |-> FALSE]
    ELSE IF "<nextnano.MSB" \in line
    THEN [software |-> "nextnano.MSB", extension |-> ".xml", break |-> FALSE]
    ELSE IF "nextnano.MSB{" \in line
    THEN [software |-> "nextnano.MSB", extension |-> ".negf", break |-> FALSE]
    ELSE [software |-> sw, extension |-> ext, break |-> FALSE]

scanLineRunBeforeFlowControl(line, sw, ext) ==
    IF "run{" \in line
    THEN [software |-> "nextnano++", extension |-> ".in", break |-> TRUE]
    ELSE IF "simulation-flow-control" \in line
    THEN [software |-> "nextnano3", extension |-> ".in", break |-> TRUE]
    ELSE IF "<nextnano.NEGF" \in line
    THEN [software |-> "nextnano.NEGF", extension |-> ".xml", break |-> TRUE]
    ELSE IF "nextnano.NEGF{" \in line
    THEN [software |-> "nextnano.NEGF++", extension |-> ".negf", break |-> FALSE]
    ELSE IF "<nextnano.MSB" \in line
    THEN [software |-> "nextnano.MSB", extension |-> ".xml", break |-> FALSE]
    ELSE IF "nextnano.MSB{" \in line
    THEN [software |-> "nextnano.MSB", extension |-> ".negf", break |-> FALSE]
    ELSE [software |-> sw, extension |-> ext, break |-> FALSE]

scanLine(line, sw, ext) ==
    IF "simulation-flow-control" \in line
    THEN [software |-> "nextnano3", extension |-> ".in", break |-> TRUE]
    ELSE IF "run{" \in line
    THEN [software |-> "nextnano++", extension |-> ".in", break |-> TRUE]
    ELSE IF "<nextnano.NEGF" \in line
    THEN [software |-> "nextnano.NEGF", extension |-> ".xml", break |-> TRUE]
    ELSE IF "nextnano.NEGF{" \in line
    THEN [software |-> "nextnano.NEGF++", extension |-> ".negf", break |-> FALSE]
    ELSE IF "<nextnano.MSB" \in line
    THEN [software |-> "nextnano.MSB", extension |-> ".xml", break |-> FALSE]
    ELSE IF "nextnano.MSB{" \in line
    THEN [software |-> "nextnano.MSB", extension |-> ".negf", break |-> FALSE]
    ELSE [software |-> sw, extension |-> ext, break |-> FALSE]

----------------------------------------------------------------------------
(* getDataFile_in_folder *)

Keywords == {"energy", "electron"}
Files == {<<"a">>, <<"b">>, <<"d", "/", "a">>}

\* every order in which the elements of a set can be listed
Orders(S) == {l \in [1..Cardinality(S) -> S] : \A i, j \in 1..Cardinality(S) : l[i] = l[j] => i = j}

\* "for s in list_of_sets: candidates = s.intersection(candidates)"
RECURSIVE intersectAll(_, _)
intersectAll(list_of_sets, candidates) ==
    IF list_of_sets = <<>> THEN candidates
    ELSE intersectAll(Tail(list_of_sets), Head(list_of_sets) \cap candidates)

\* the files the search of lines 259-268 yields, as a set, or its exception
search(kw, fnd) ==
    IF isinstance(kw, "str") THEN Ok(fnd[kw.v])
    ELSE IF isinstance(kw, "list")
    THEN LET list_of_sets == [i \in 1..Len(kw.v) |-> fnd[kw.v[i]]]
         IN IF list_of_sets = <<>> THEN Raise("IndexError", <<>>)
            ELSE Ok(intersectAll(list_of_sets, list_of_sets[1]))
    ELSE Raise("TypeError", <<>>)

\* the branch taken on len(list_of_files)
validateAlwaysAsks(n) == IF n = 0 THEN "not found" ELSE "ask"

validate(n) == IF n = 0 THEN "not found" ELSE IF n = 1 THEN "single" ELSE "ask"

Digits == {"0", "1", "2", "3", "4", "5", "6", "7", "8", "9"}

DigitValue(c) == CHOOSE d \in 0..9 : Digit(d) = c

RECURSIVE DigitsValue(_)
DigitsValue(s) ==
    IF s = <<>> THEN 0 ELSE 10 * DigitsValue(SubSeq(s, 1, Len(s) - 1)) + DigitValue(s[Len(s)])

RECURSIVE strip(_)
strip(s) ==
    IF s # <<>> /\ Head(s) = " " THEN strip(Tail(s))
    ELSE IF s # <<>> /\ s[Len(s)] = " " THEN strip(SubSeq(s, 1, Len(s) - 1))
    ELSE s

\* int(choice): surrounding blanks are dropped, one sign is allowed, the rest
\* must be decimal digits; anything else is a ValueError
int(s) ==
    LET t == strip(s)
        signed == t # <<>> /\ Head(t) \in {"+", "-"}
        body == IF signed THEN Tail(t) ELSE t
    IN IF body = <<>> \/ \E i \in 1..Len(body) : body[i] \notin Digits
       THEN Raise("ValueError", <<>>)
       ELSE Ok(IF signed /\ Head(t) = "-" THEN -DigitsValue(body) ELSE DigitsValue(body))

\* the bounds test of line 291
outOfBoundsAllowsNegative(choice, n) == choice >= n

outOfBounds(choice, n) == choice < 0 \/ choice >= n

\* list[i] of Python: a negative index counts from the end
getitem(list, i) ==
    IF i >= Len(list) \/ i < -Len(list) THEN Raise("IndexError", <<>>)
    ELSE IF i < 0 THEN Ok(list[Len(list) + i + 1])
    ELSE Ok(list[i + 1])

\* nn.DataFile(file, product=software), the parsed output data
DataFile(f, sw) == <<"DataFile", f, sw>>

----------------------------------------------------------------------------
(* Inputs *)

NameAlphabet == {"a", ".", "/"}
NameEndings == {<<>>, <<"i", "n">>, <<"x", "m", "l">>, <<"n", "e", "g", "f">>, <<"c", "s", "v">>}

\* file names and paths: a free part over the alphabet, then one of the endings
Filenames == {p \o e : p \in SeqsUpTo(NameAlphabet, MaxNameLen), e \in NameEndings}

\* the names getDataFile is called with while the resolver's inputs vary
FewFilenames == {<<"a", ".", "i", "n">>, <<"d", "/", "a">>, <<"a", ".", "c", "s", "v">>}

SweepVarValues == {StrV(<<"T">>), StrV(<<>>), StrV(<<"/", "V">>), IntV(3)}

CoordinateKeys == {StrV(<<"T">>), StrV(<<"V">>), IntV(1)}
CoordinateValues == {IntV(-1), IntV(12), StrV(<<"x">>)}

\* sweepCoordinates.items(): a dict holds each key once
CoordinateItems ==
    {l \in SeqsUpTo(CoordinateKeys \X CoordinateValues, MaxArgs) :
        \A i, j \in 1..Len(l) : l[i][1] = l[j][1] => i = j}

SweepFolders == {<<>>, <<"o", "/", "s">>, <<"s", "/">>}

Lines == {l \in SUBSET Markers : Cardinality(l) <= MaxMarkersPerLine}

KeywordArguments ==
    {StrV(k) : k \in Keywords} \cup {ListV(l) : l \in SeqsUpTo(Keywords, MaxKeywords)}
        \cup {IntV(0)}

ChooserInputs == {<<"q">>, <<"0">>, <<"1">>, <<"2">>, <<"5">>, <<"-", "1">>, <<"x">>,
                  <<>>, <<" ", "1">>}

----------------------------------------------------------------------------
(* Initial states: a call with its arguments and environment, not yet run *)

NoCall ==
    /\ pc = "call" /\ ret = <<>> /\ err = "none" /\ message = <<>>

NoNames ==
    /\ filename = <<>> /\ args = <<>> /\ sweep_output_folder_path = <<>>

NoDetect ==
    /\ exists = FALSE /\ lines = <<>> /\ lineNo = 0 /\ extension = Unbound

NoResolve ==
    /\ keywords = IntV(0) /\ found = [k \in Keywords |-> {}] /\ folder_path = <<>>

ResolveLocals ==
    /\ list_of_files = <<>> /\ listed = <<>> /\ choices = <<>> /\ file = <<>>

InitNames ==
    /\ NoCall /\ NoDetect /\ ResolveLocals
    /\ filename \in Filenames
    /\ \/ /\ op = "separateFileExtension"
          /\ args = <<>> /\ software = Unbound /\ sweep_output_folder_path = <<>>
          /\ NoResolve
       \/ /\ op = "getSweepOutputFolderName"
          /\ args \in SeqsUpTo(SweepVarValues, MaxArgs)
          /\ software = Unbound /\ sweep_output_folder_path = <<>>
          /\ NoResolve
       \/ /\ op = "getSweepOutputFolderPath"
          /\ args \in SeqsUpTo(SweepVarValues, MaxArgs)
          /\ software \in Software /\ sweep_output_folder_path = <<>>
          /\ NoResolve
       \/ /\ op = "get_output_subfolder_path"
          /\ args = <<>> /\ software = Unbound
          /\ sweep_output_folder_path \in SweepFolders
          /\ NoResolve
       \/ /\ op = "getSweepOutputSubfolderName"
          /\ args \in CoordinateItems
          /\ software = Unbound /\ sweep_output_folder_path = <<>>
          /\ NoResolve
       \/ /\ op = "getDataFile"
          /\ args = <<>> /\ sweep_output_folder_path = <<>>
          /\ software \in {"nextnano3", "nextnano++"}
          /\ keywords = StrV("energy")
          /\ found \in [Keywords -> SUBSET {<<"a">>, <<"b">>}]
          /\ found["electron"] = {}
          /\ folder_path = <<>>

InitDetect ==
    /\ NoCall /\ NoNames /\ NoResolve /\ ResolveLocals
    /\ op = "detect_software_new"
    /\ software = Unbound /\ extension = Unbound /\ lineNo = 0
    /\ \/ exists = FALSE /\ lines = <<>>
       \/ exists = TRUE /\ lines \in SeqsUpTo(Lines, MaxLines)

InitResolve ==
    /\ NoCall /\ NoDetect /\ ResolveLocals
    /\ args = <<>> /\ sweep_output_folder_path = <<>>
    /\ keywords \in KeywordArguments
    /\ found \in [Keywords -> SUBSET Files]
    /\ \/ /\ op = "getDataFile_in_folder"
          /\ filename = <<>> /\ software = "nextnano++"
          /\ folder_path = <<"o", "/", "a">>
       \/ /\ op = "getDataFile"
          /\ filename \in FewFilenames /\ software = "nextnano3"
          /\ folder_path = <<>>

----------------------------------------------------------------------------
(* Actions *)

Return(r) ==
    /\ pc' = "done"
    /\ ret' = r.val
    /\ err' = r.err
    /\ message' = r.msg

Inputs == <<op, filename, args, sweep_output_folder_path, exists, lines, keywords, found>>

CallSeparateFileExtension ==
    /\ pc = "call" /\ op = "separateFileExtension"
    /\ Return(separateFileExtension(filename))
    /\ UNCHANGED <<Inputs, software, lineNo, extension, folder_path,
                   list_of_files, listed, choices, file>>

CallGetSweepOutputFolderName ==
    /\ pc = "call" /\ op = "getSweepOutputFolderName"
    /\ Return(getSweepOutputFolderName(filename, args))
    /\ UNCHANGED <<Inputs, software, lineNo, extension, folder_path,
                   list_of_files, listed, choices, file>>

CallGetSweepOutputFolderPath ==
    /\ pc = "call" /\ op = "getSweepOutputFolderPath"
    /\ Return(getSweepOutputFolderPath(filename, software, args))
    /\ UNCHANGED <<Inputs, software, lineNo, extension, folder_path,
                   list_of_files, listed, choices, file>>

CallGetOutputSubfolderPath ==
    /\ pc = "call" /\ op = "get_output_subfolder_path"
    /\ Return(get_output_subfolder_path(sweep_output_folder_path, filename))
    /\ UNCHANGED <<Inputs, software, lineNo, extension, folder_path,
                   list_of_files, listed, choices, file>>

CallGetSweepOutputSubfolderName ==
    /\ pc = "call" /\ op = "getSweepOutputSubfolderName"
    /\ Return(getSweepOutputSubfolderName(filename, args))
    /\ UNCHANGED <<Inputs, software, lineNo, extension, folder_path,
                   list_of_files, listed, choices, file>>

\* detect_software_new, lines 63-64 and 87-88: open the file
DetectOpen ==
    /\ pc = "call" /\ op = "detect_software_new"
    /\ IF ~exists
       THEN Return(Raise("FileNotFoundError", <<>>))
       ELSE /\ pc' = IF Len(lines) = 0 THEN "check" ELSE "scan"
            /\ UNCHANGED <<ret, err, message>>
    /\ UNCHANGED <<Inputs, software, lineNo, extension, folder_path,
                   list_of_files, listed, choices, file>>

\* lines 65-86: the loop body on the next line of the file
DetectScan ==
    /\ pc = "scan" /\ lineNo < Len(lines)
    /\ LET r == scanLine(lines[lineNo + 1], software, extension)
       IN /\ software' = r.software
          /\ extension' = r.extension
          /\ lineNo' = lineNo + 1
          /\ pc' = IF r.break \/ lineNo + 1 = Len(lines) THEN "check" ELSE "scan"
    /\ UNCHANGED <<Inputs, ret, err, message, folder_path, list_of_files, listed, choices, file>>

\* lines 90-95: reading the never-assigned local raises UnboundLocalError
DetectCheck ==
    /\ pc = "check"
    /\ IF software = Unbound
       THEN Return(Raise("UnboundLocalError", <<>>))
       ELSE IF software = ""
       THEN Return(Raise("NextnanoInputFileError", <<>>))
       ELSE Return(Ok(<<software, extension>>))
    /\ UNCHANGED <<Inputs, software, lineNo, extension, folder_path,
                   list_of_files, listed, choices, file>>

\* getDataFile, lines 231-235, up to the call of getDataFile_in_folder
CallGetDataFile ==
    /\ pc = "call" /\ op = "getDataFile"
    /\ LET outputFolder == outputdirectory(software)
           sep == separateFileExtension(filename)
       IN IF sep.err # "none"
          THEN Return(sep) /\ UNCHANGED folder_path
          ELSE /\ folder_path' = join(outputFolder, sep.val[1])
               /\ pc' = "search"
               /\ UNCHANGED <<ret, err, message>>
    /\ UNCHANGED <<Inputs, software, lineNo, extension,
                   list_of_files, listed, choices, file>>

\* getDataFile_in_folder, lines 256-268: the search; list(set) and the
\* directory walk fix no order of the files
Search ==
    /\ \/ pc = "call" /\ op = "getDataFile_in_folder"
       \/ pc = "search"
    /\ LET r == search(keywords, found)
       IN IF r.err # "none"
          THEN Return(Raise(r.err, r.msg)) /\ UNCHANGED list_of_files
          ELSE /\ list_of_files' \in Orders(r.val)
               /\ pc' = "validate"
               /\ UNCHANGED <<ret, err, message>>
    /\ UNCHANGED <<Inputs, software, lineNo, extension, folder_path,
                   listed, choices, file>>

\* lines 270-280: no file, one file, or the list of choices
Validate ==
    /\ pc = "validate"
    /\ LET branch == validate(Len(list_of_files))
       IN CASE branch = "not found" ->
                 /\ Return(Raise("FileNotFoundError", keywords))
                 /\ UNCHANGED <<listed, file>>
            [] branch = "single" ->
                 /\ file' = list_of_files[1]
                 /\ pc' = "load"
                 /\ UNCHANGED <<ret, err, message, listed>>
            [] branch = "ask" ->
                 /\ listed' = [i \in 1..Len(list_of_files) |-> split_tail(list_of_files[i])]
                 /\ pc' = "prompt"
                 /\ UNCHANGED <<ret, err, message, file>>
    /\ UNCHANGED <<Inputs, software, lineNo, extension, folder_path,
                   list_of_files, choices>>

\* lines 281-296: one answer of the chooser
Prompt ==
    /\ pc = "prompt" /\ Len(choices) < MaxPrompts
    /\ \E choice \in ChooserInputs :
         /\ choices' = Append(choices, choice)
         /\ IF choice = <<"q">>
            THEN Return(Raise("RuntimeError", <<>>)) /\ UNCHANGED file
            ELSE LET parsed == int(choice)
                 IN IF parsed.err # "none" \/ outOfBounds(parsed.val, Len(list_of_files))
                    THEN UNCHANGED <<pc, ret, err, message, file>>
                    ELSE LET chosen == getitem(list_of_files, parsed.val)
                         IN IF chosen.err # "none"
                            THEN Return(chosen) /\ UNCHANGED file
                            ELSE /\ file' = chosen.val
                                 /\ pc' = "load"
                                 /\ UNCHANGED <<ret, err, message>>
    /\ UNCHANGED <<Inputs, software, lineNo, extension, folder_path,
                   list_of_files, listed>>

\* lines 298-303: the external loader parses the file or rejects its format
Load ==
    /\ pc = "load"
    /\ \/ Return(Ok(DataFile(file, software)))
       \/ Return(Raise("NotImplementedError", file))
    /\ UNCHANGED <<Inputs, software, lineNo, extension, folder_path,
                   list_of_files, listed, choices, file>>

----------------------------------------------------------------------------
(* Specifications *)

NextResolve ==
    \/ CallGetDataFile
    \/ Search
    \/ Validate
    \/ Prompt
    \/ Load

NextNames ==
    \/ CallSeparateFileExtension
    \/ CallGetSweepOutputFolderName
    \/ CallGetSweepOutputFolderPath
    \/ CallGetOutputSubfolderPath
    \/ CallGetSweepOutputSubfolderName
    \/ NextResolve

NextDetect ==
    \/ DetectOpen
    \/ DetectScan
    \/ DetectCheck

Init == InitNames \/ InitDetect \/ InitResolve

Next == NextNames \/ NextDetect

Spec == Init /\ [][Next]_vars

SpecNames == InitNames /\ [][NextNames]_vars

SpecDetect == InitDetect /\ [][NextDetect]_vars

SpecResolve == InitResolve /\ [][NextResolve]_vars

----------------------------------------------------------------------------
(* Properties of detect_software_new *)

EarlyExitMarkers == {"simulation-flow-control", "run{", "<nextnano.NEGF"}
OverwriteMarkers == {"nextnano.NEGF{", "<nextnano.MSB", "nextnano.MSB{"}

\* the (engine, extension) pair the documentation gives for each marker
PairOf(m) ==
    CASE m = "simulation-flow-control" -> <<"nextnano3", ".in">>
      [] m = "run{" -> <<"nextnano++", ".in">>
      [] m = "<nextnano.NEGF" -> <<"nextnano.NEGF", ".xml">>
      [] m = "nextnano.NEGF{" -> <<"nextnano.NEGF++", ".negf">>
      [] m = "<nextnano.MSB" -> <<"nextnano.MSB", ".xml">>
      [] m = "nextnano.MSB{" -> <<"nextnano.MSB", ".negf">>

MarkerOrder == <<"simulation-flow-control", "run{", "<nextnano.NEGF",
                 "nextnano.NEGF{", "<nextnano.MSB", "nextnano.MSB{">>

\* the marker of a line that comes first in MarkerOrder
DecisiveMarker(line) ==
    MarkerOrder[CHOOSE i \in 1..6 :
                    /\ MarkerOrder[i] \in line
                    /\ \A j \in 1..(i - 1) : MarkerOrder[j] \notin line]

DetectDone == op = "detect_software_new" /\ pc = "done" /\ exists

EarlyLines == {i \in 1..Len(lines) : lines[i] \cap EarlyExitMarkers # {}}
OverwriteLines == {i \in 1..Len(lines) : lines[i] \cap OverwriteMarkers # {}}
FirstOf(S) == CHOOSE i \in S : \A j \in S : i <= j
LastOf(S) == CHOOSE i \in S : \A j \in S : j <= i

\* C4: a file that is read to its end without any marker makes the call fail
\* with NextnanoInputFileError, and a file that cannot be opened makes it fail
\* with FileNotFoundError.
C4_UndetectableRaisesInputFileError ==
    /\ (DetectDone /\ \A i \in 1..Len(lines) : lines[i] = {})
           => err = "NextnanoInputFileError"
    /\ (op = "detect_software_new" /\ pc = "done" /\ ~exists)
           => err = "FileNotFoundError"

C6_AsStated ==
    DetectDone =>
        /\ (\E i \in 1..Len(lines) :
                /\ "run{" \in lines[i]
                /\ \A j \in 1..(i - 1) : lines[j] = {})
               => (err = "none" /\ ret = <<"nextnano++", ".in">>)
        /\ (\E i \in 1..Len(lines) :
                /\ "simulation-flow-control" \in lines[i]
                /\ \A j \in 1..i : "run{" \notin lines[j])
               => (err = "none" /\ ret = <<"nextnano3", ".in">>)

\* C6 amended: a line with 'run{' and without 'simulation-flow-control', no
\* marker on an earlier line, gives nextnano++; a line with
\* 'simulation-flow-control', neither 'run{' nor '<nextnano.NEGF' on an
\* earlier line, gives nextnano3.
C6_RunAndFlowControl ==
    DetectDone =>
        /\ (\E i \in 1..Len(lines) :
                /\ "run{" \in lines[i]
                /\ "simulation-flow-control" \notin lines[i]
                /\ \A j \in 1..(i - 1) : lines[j] = {})
               => (err = "none" /\ ret = <<"nextnano++", ".in">>)
        /\ (\E i \in 1..Len(lines) :
                /\ "simulation-flow-control" \in lines[i]
                /\ \A j \in 1..(i - 1) :
                       "run{" \notin lines[j] /\ "<nextnano.NEGF" \notin lines[j])
               => (err = "none" /\ ret = <<"nextnano3", ".in">>)

\* 'simulation-flow-control' found after an overwrite line and before 'run{'
C6_WitnessFlowControlBeforeRun ==
    /\ DetectDone /\ Len(lines) = 3 /\ lineNo = 2
    /\ lines[1] = {"<nextnano.MSB"}
    /\ lines[2] = {"simulation-flow-control"}
    /\ lines[3] = {"run{"}
    /\ ret = <<"nextnano3", ".in">>

----------------------------------------------------------------------------
(* Properties of the file-name functions *)

\* the part of a path after its last slash, described by what it is
NameOf(path) ==
    CHOOSE t \in {SubSeq(path, i, Len(path)) : i \in 1..(Len(path) + 1)} :
        /\ \A i \in 1..Len(t) : t[i] # "/"
        /\ (Len(t) < Len(path) => path[Len(path) - Len(t)] = "/")

\* a name has an extension when a dot follows something other than dots
HasExtension(t) == \E i \in 1..Len(t) : t[i] = "." /\ \E j \in 1..(i - 1) : t[j] # "."

NamedExtensions == {<<".", "i", "n">>, <<".", "x", "m", "l">>, <<".", "n", "e", "g", "f">>}

HasSupportedExtension(path) ==
    \/ ~HasExtension(NameOf(path))
    \/ \E e \in NamedExtensions : EndsWith(NameOf(path), e)

\* the name without its extension, described by what it is
StemOf(path) ==
    LET t == NameOf(path)
    IN CHOOSE b \in {SubSeq(t, 1, k) : k \in 0..Len(t)} :
           LET e == SubSeq(t, Len(b) + 1, Len(t))
           IN IF HasExtension(t)
              THEN e # <<>> /\ e[1] = "." /\ \A i \in 2..Len(e) : e[i] # "."
              ELSE e = <<>>

\* a base name: no directory and no extension
IsBaseName(b) == NameOf(b) = b /\ ~HasExtension(b)

AllStrings(values) == \A i \in 1..Len(values) : isinstance(values[i], "str")

FileNameOps == {"separateFileExtension", "getSweepOutputFolderName",
                "getSweepOutputFolderPath", "get_output_subfolder_path",
                "getSweepOutputSubfolderName", "getDataFile"}

Done(o) == op = o /\ pc = "done"

C8_FolderNameFormat ==
    (Done("getSweepOutputFolderName") /\ IsBaseName(filename)) =>
        IF AllStrings(args)
        THEN /\ err = "none"
             /\ ret = filename \o sweepSuffix
                        \o Flatten([i \in 1..Len(args) |-> <<"_", "_">> \o args[i].v])
        ELSE err = "TypeError" /\ ret = <<>>

\* two different sweep variables appended in call order
C8_WitnessTwoSweepVariables ==
    /\ Done("getSweepOutputFolderName") /\ filename = <<"a">>
    /\ args = <<StrV(<<"T">>), StrV(<<"/", "V">>)>>
    /\ ret = <<"a", "_", "s", "w", "e", "e", "p", "_", "_", "T", "_", "_", "/", "V">>

\* C9: for a base name b, getSweepOutputSubfolderName returns b + '__'
\* followed by key + '_' + str(value) + '_' for each coordinate in insertion
\* order; a key that is not a string gives TypeError.
C9_SubfolderNameFormat ==
    (Done("getSweepOutputSubfolderName") /\ IsBaseName(filename)) =>
        IF \A i \in 1..Len(args) : isinstance(args[i][1], "str")
        THEN /\ err = "none"
             /\ ret = filename \o <<"_", "_">>
                        \o Flatten([i \in 1..Len(args) |->
                                        args[i][1].v \o <<"_">> \o str(args[i][2]) \o <<"_">>])
        ELSE err = "TypeError" /\ ret = <<>>

\* two coordinates with integer values, one negative and one of two digits
C9_WitnessTwoCoordinates ==
    /\ Done("getSweepOutputSubfolderName") /\ filename = <<"a">>
    /\ args = <<<<StrV(<<"V">>), IntV(12)>>, <<StrV(<<"T">>), IntV(-1)>>>>
    /\ ret = <<"a", "_", "_", "V", "_", "1", "2", "_", "T", "_", "-", "1", "_">>

----------------------------------------------------------------------------
(* Properties of getDataFile_in_folder *)

ResolverOps == {"getDataFile_in_folder", "getDataFile"}

Elements(list) == {list[i] : i \in 1..Len(list)}

\* the call has passed the search of lines 259-268 without an exception
Searched == op \in ResolverOps /\ pc \in {"validate", "prompt", "load", "done"}
                /\ err \notin {"TypeError", "IndexError"}
                /\ (op = "getDataFile" => HasSupportedExtension(filename))

\* an answer that ends the dialogue over n candidates
IsQuit(choice) == choice = <<"q">>
IsValidIndex(choice, n) == int(choice).err = "none" /\ 0 <= int(choice).val /\ int(choice).val < n
Ends(choice, n) == IsQuit(choice) \/ IsValidIndex(choice, n)

\* C1: with n >= 2 candidates the dialogue ends exactly at the first answer
\* that is 'q' or an integer i with 0 <= i < n; every earlier answer is
\* followed by another prompt and loads nothing; a valid index i loads the
\* candidate listed as Choice i; 'q' fails with RuntimeError and loads nothing.
C1_ChooserEndsAtFirstValidAnswer ==
    LET n == Len(list_of_files)
        last == choices[Len(choices)]
    IN (Searched /\ n >= 2 /\ pc # "validate") =>
        /\ \A k \in 1..(Len(choices) - 1) : ~Ends(choices[k], n)
        /\ Len(listed) = n
        /\ pc = "prompt" =>
               /\ \A k \in 1..Len(choices) : ~Ends(choices[k], n)
               /\ file = <<>> /\ err = "none" /\ ret = <<>>
        /\ pc \in {"load", "done"} =>
               /\ choices # <<>> /\ Ends(last, n)
               /\ IsQuit(last) =>
                      pc = "done" /\ err = "RuntimeError" /\ file = <<>> /\ ret = <<>>
               /\ ~IsQuit(last) =>
                      /\ file = list_of_files[int(last).val + 1]
                      /\ listed[int(last).val + 1] = NameOf(file)
                      /\ pc = "done" =>
                             \/ err = "none" /\ ret = DataFile(file, software)
                             \/ err = "NotImplementedError" /\ ret = <<>>

\* an out-of-range index and then a valid one, which loads the listed file
C1_WitnessRetryThenIndex ==
    /\ Done("getDataFile_in_folder") /\ Len(list_of_files) = 2
    /\ choices = <<<<"5">>, <<"1">>>>
    /\ file = list_of_files[2] /\ file = <<"d", "/", "a">>
    /\ listed = <<<<"b">>, <<"a">>>>
    /\ err = "none"

\* C2: the chooser is consulted exactly when the search yields two or more
\* candidates: none gives FileNotFoundError naming the keywords, with no
\* prompt and no file loaded; exactly one is loaded and returned with no
\* prompt.
C2_ChooserOnlyForSeveralCandidates ==
    LET n == Len(list_of_files)
        consulted == pc = "prompt" \/ listed # <<>> \/ choices # <<>>
    IN (Searched /\ pc # "validate") =>
        /\ consulted <=> n >= 2
        /\ n = 0 => /\ pc = "done" /\ err = "FileNotFoundError" /\ message = keywords
                    /\ file = <<>> /\ ret = <<>>
        /\ n = 1 => /\ pc \in {"load", "done"}
                    /\ file = list_of_files[1]
                    /\ pc = "done" =>
                           \/ err = "none" /\ ret = DataFile(list_of_files[1], software)
                           \/ err = "NotImplementedError" /\ ret = <<>>

\* the only candidate returned without a prompt
C2_WitnessSingleCandidate ==
    /\ Done("getDataFile_in_folder") /\ Len(list_of_files) = 1
    /\ keywords = ListV(<<"energy", "electron">>)
    /\ Cardinality(found["energy"]) = 2 /\ Cardinality(found["electron"]) = 2
    /\ choices = <<>> /\ err = "none" /\ ret = DataFile(list_of_files[1], software)

\* C3: for a list of keywords the candidates are exactly the files that the
\* search of every keyword of the list found; for a string keyword they are
\* that keyword's search result.
C3_CandidatesAreIntersection ==
    (/\ op \in ResolverOps /\ pc \in {"validate", "prompt", "load", "done"}
     /\ (op = "getDataFile" => HasSupportedExtension(filename))
     /\ keywords.t \in {"str", "list"})
        => /\ err \notin {"TypeError", "IndexError"}
           /\ Cardinality(Elements(list_of_files)) = Len(list_of_files)
           /\ Elements(list_of_files) =
                  IF keywords.t = "str" THEN found[keywords.v]
                  ELSE {f \in Files : \A i \in 1..Len(keywords.v) : f \in found[keywords.v[i]]}

====
